---------------------------- MODULE Spec2Model ----------------------------
(***************************************************************************)
(* Model of the event-ingestion system's real-time core:                   *)
(*   - the WebSocket hub (package websocket: Hub, Client, Run,             *)
(*     BroadcastToTenant, HandleWebSocket, writePump, readPump);           *)
(*   - the sliding-window rate limiter (package middleware: RateLimiter);  *)
(*   - the HTTP routes in front of them (main.go setupRouter, package      *)
(*     auth: Authenticate, GenerateJWT, validateJWT; package handlers).    *)
(* Goroutines are modelled as processes with a program counter.  A step    *)
(* is a stretch of code no other goroutine can observe the inside of: a    *)
(* critical section under a write lock, a channel rendezvous, or one       *)
(* iteration of a loop under a read lock.  An unrecovered panic or runtime *)
(* fatal error in a goroutine ends the process (variable crashed).         *)
(***************************************************************************)
EXTENDS Integers, Sequences, FiniteSets, TLC

\* ------------------------------------------------------------------ bounds
\* Number of Client objects HandleWebSocket may create in one run.
MaxConns == 2
\* Number of BroadcastToTenant goroutines (one per ingested event).
MaxEvents == 3
\* Capacity of Client.send (make(chan []byte, 256)), scaled down.
QueueCap == 2

\* Largest limit NewRateLimiter is constructed with.
MaxLimit == 2
\* rl.window (time.Minute), in clock ticks.
Window == 2
\* Last clock reading of a run.
MaxTime == 4
\* Number of Allow calls in one run.
MaxCalls == 4
\* Number of goroutines calling into the rate limiter or serving requests.
MaxCallers == 2
\* Number of connections in the runs whose progress is checked.
MaxLiveConns == 1
\* Number of HTTP requests in one run.
MaxReqs == 4
\* Number of goroutines serving HTTP requests at a time.
MaxServers == 1
\* Rows the tenants table can hold.
MaxTenantRows == 3
\* WebSocket objects the dashboard creates in a run.
MaxSockets == 4
\* Times the EventFeed component is mounted in a run.
MaxMounts == 2
\* Clock ticks in one second, the precision of a token's dates.
TicksPerSecond == 2
\* cfg.Auth.JWTExpiry, in clock ticks.
JwtExpiry == 2

\* net/http status codes and the Retry-After header of the rate limiter.
StatusSwitchingProtocols == 101
StatusOK == 200
StatusCreated == 201
StatusBadRequest == 400
StatusUnauthorized == 401
StatusForbidden == 403
StatusNotFound == 404
StatusTooManyRequests == 429
StatusInternalServerError == 500
RetryAfter == 60
StatusConflict == 409
\* time.Minute in seconds.
SecondsPerMinute == 60

Conns == 1..MaxConns
Events == 1..MaxEvents
Tenants == {"A", "B"}
NoTenant == ""
NoClient == 0
NoEvent == 0
Callers == 1..MaxCallers
Servers == 1..MaxServers
Keys == Tenants
NoKey == ""

VARIABLES
  \* ---- Hub and Client fields
  clients,      \* h.clients: the set of keys of the map
  tenantID,     \* client.tenantID
  send,         \* client.send: buffered payloads, oldest first
  sendClosed,   \* clients whose send channel has been closed
  lastFrame,    \* the payload of the last text frame WriteMessage sent
  \* ---- goroutine positions
  hws,          \* HandleWebSocket: "none" | "started"
  wpump,        \* writePump: "none" | "run" | "exited"
  rpump,        \* readPump: "none" | "run" | "unregister" | "exited"
  runPc,        \* Run: "select" | "stopped"
  bpc,          \* BroadcastToTenant: "new" | "range" | "default" | "done"
  bTenant,      \* its tenantID argument
  bClient,      \* the loop variable client, once the default branch is taken
  bSeen,        \* the map keys the range loop has produced so far
  bStale,       \* keys deleted by another goroutine during this range loop
  crashed,      \* "" while the process runs, else the panic / fatal message
  \* ---- history
  bSent,        \* how often this publish has enqueued on each client.send
  dropped,      \* clients closed by BroadcastToTenant's default branch
  regDone,      \* clients whose registration Run has processed
  unregDone,    \* clients whose unregistration Run has processed
  before,       \* the publishes that had returned when this one was invoked
  \* ---- RateLimiter fields
  requests,     \* rl.requests: key -> admitted timestamps, oldest first
  limit,        \* rl.limit
  now,          \* the clock time.Now() reads (monotonic)
  \* ---- goroutines inside Allow / GetRemainingRequests
  cpc,          \* "idle" | "lock" | "prune" | "check" | "unlock" | "count"
                \* | "runlock"
  cKey,         \* the key argument
  cNow,         \* the local now
  cValid,       \* the local validRequests
  cResult,      \* Allow's return value
  cRemaining,   \* GetRemainingRequests' return value
  \* ---- history
  calls,        \* per key, every Allow decision: [t |-> now, ok |-> result]
  \* ---- database
  active,       \* tenants table: Tenant.Active by tenant id
  events,       \* events table: the TenantID of every row, in insertion order
  \* ---- HTTP requests being served
  served,       \* number of requests accepted by the server so far
  apc,          \* "idle" | "limit" | "handler" | "go" | "respond"
                \* | "register"
  ctxTenant,    \* gin context: c.Set("tenant_id", ...)
  authType,     \* gin context: c.Set("auth_type", ...)
  resp,         \* the response the server wrote last
  \* ---- history
  created,      \* this request's CreateEvent has succeeded
  handed,       \* how often this request ran go h.hub.BroadcastToTenant
  reqTenant,    \* req.TenantID of the event this request has stored
  \* ---- POST /api/v1/tenants
  tenantRows,   \* tenants table: the Name of every row, in insertion order
  tpc,          \* CreateTenant: "idle" | "create"
  tName,        \* req.Name of the request being served
  tResp,        \* the status CreateTenant answered last with
  \* ---- dashboard: the EventFeed component
  tenantApiKey, \* the tenantApiKey prop, NoKey while it is not rendered
  instance,     \* how often the component has been mounted
  wsRef,        \* wsRef.current of every component instance, 0 for null
  sockets,      \* every WebSocket created: [state, key, inst]
  timers        \* sockets whose onclose timer is pending

hubVars == <<clients, tenantID, send, sendClosed, lastFrame, hws, wpump, rpump,
             runPc, bpc, bTenant, bClient, bSeen, bStale, bSent,
             crashed, dropped, regDone, unregDone, before>>

mapVars == <<clients, sendClosed, dropped, regDone, unregDone>>
connVars == <<tenantID, hws, wpump, rpump, lastFrame>>
runVars == <<runPc>>
bcastVars == <<bpc, bTenant, bClient, bSeen, bStale, bSent, before>>

rlVars == <<requests, limit, now, cpc, cKey, cNow, cValid, cResult,
           cRemaining, calls>>

apiVars == <<active, events, served, apc, ctxTenant, authType, resp, created,
            handed, reqTenant>>

tenantVars == <<tenantRows, tpc, tName, tResp>>
feedVars == <<tenantApiKey, instance, wsRef, sockets, timers>>

vars == <<hubVars, rlVars, apiVars, tenantVars, feedVars>>

\* --------------------------------------------------------------- helpers
Running == crashed = ""

\* Goroutines that hold h.mu.RLock().
Readers == {e \in Events : bpc[e] \in {"range", "default"}}

\* Clients whose c.conn.Close() has run (the defer of either pump).
ConnClosed == {c \in Conns : wpump[c] = "exited" \/ rpump[c] = "exited"}

NoneSent == [c \in Conns |-> 0]

\* ------------------------------------------------------- pure operations
\* if client.tenantID == tenantID
TenantMatchAny(c, t) == TRUE
TenantMatch(c, t) == tenantID[c] = t

\* case client.send <- data: a buffered channel of capacity QueueCap
SendFull(q) == Len(q) >= QueueCap
EnqueueFront(q, m) == <<m>> \o q
Enqueue(q, m) == Append(q, m)

\* for client := range h.clients
RangeClients == clients

\* Run, case client := <-h.unregister: the body under h.mu.Lock().
\* Result: the map keys, the closed channels, and the panic raised if any.
UnregisterNoop(cl, closed, c) ==
  [clients |-> cl, closed |-> closed, panic |-> ""]
UnregisterNoCheck(cl, closed, c) ==
  [clients |-> cl \ {c},
   closed  |-> closed \cup {c},
   panic   |-> IF c \in closed THEN "close of closed channel" ELSE ""]
Unregister(cl, closed, c) ==
  IF c \in cl
    THEN [clients |-> cl \ {c},
          closed  |-> closed \cup {c},
          panic   |-> IF c \in closed THEN "close of closed channel" ELSE ""]
    ELSE [clients |-> cl, closed |-> closed, panic |-> ""]

\* ------------------------------------------------------------------ Init
HubInit ==
  /\ clients = {}
  /\ tenantID = [c \in Conns |-> NoTenant]
  /\ send = [c \in Conns |-> <<>>]
  /\ sendClosed = {}
  /\ lastFrame = [c \in Conns |-> NoEvent]
  /\ hws = [c \in Conns |-> "none"]
  /\ wpump = [c \in Conns |-> "none"]
  /\ rpump = [c \in Conns |-> "none"]
  /\ runPc = "select"
  /\ bpc = [e \in Events |-> "new"]
  /\ bTenant = [e \in Events |-> NoTenant]
  /\ bClient = [e \in Events |-> NoClient]
  /\ bSeen = [e \in Events |-> {}]
  /\ bStale = [e \in Events |-> {}]
  /\ bSent = [e \in Events |-> NoneSent]
  /\ crashed = ""
  /\ dropped = {}
  /\ regDone = {}
  /\ unregDone = {}
  /\ before = [e \in Events |-> {}]

\* ------------------------------------------------------- HandleWebSocket
\* HandleWebSocket builds the Client and blocks on h.register <- client
\* until Run takes it: case client := <-h.register, then
\* h.mu.Lock(); h.clients[client] = true; h.mu.Unlock(), while the handler
\* resumes and starts both pumps.  Until the rendezvous the new Client is
\* visible to nobody, so the handler's wait is not a state of its own; once
\* Run has returned the handler waits for ever.  The write lock needs every
\* reader gone.
Register(c, t) ==
  /\ Running
  /\ hws[c] = "none"
  /\ IF c = 1 THEN TRUE ELSE hws[c - 1] # "none"
  /\ t # NoTenant
  /\ runPc = "select"
  /\ Readers = {}
  /\ tenantID' = [tenantID EXCEPT ![c] = t]
  /\ hws' = [hws EXCEPT ![c] = "started"]
  /\ wpump' = [wpump EXCEPT ![c] = "run"]
  /\ rpump' = [rpump EXCEPT ![c] = "run"]
  /\ clients' = clients \cup {c}
  /\ regDone' = regDone \cup {c}
  /\ UNCHANGED <<sendClosed, dropped, unregDone, lastFrame, send, runPc,
                 bcastVars, crashed>>

\* Hub.HandleWebSocket called for tenant t, the rest of the system idle.
\* Tenant ids are opaque to the hub and only compared for equality: the
\* first client's tenant is called "A".
HandleWebSocket(c, t) ==
  /\ c = 1 => t = "A"
  /\ Register(c, t)
  /\ UNCHANGED <<rlVars, apiVars, tenantVars, feedVars>>

\* ------------------------------------------------------------------- Run
\* case client := <-h.unregister: the rendezvous with readPump's defer
\* (which goes on to c.conn.Close() and returns), then
\* h.mu.Lock(); if _, ok := h.clients[client]; ok { close; delete };
\* h.mu.Unlock().
RunUnregister(c) ==
  /\ Running
  /\ runPc = "select"
  /\ rpump[c] = "unregister"
  /\ Readers = {}
  /\ rpump' = [rpump EXCEPT ![c] = "exited"]
  /\ LET r == Unregister(clients, sendClosed, c) IN
       IF r.panic # ""
         THEN /\ crashed' = r.panic
              /\ UNCHANGED <<clients, sendClosed, unregDone>>
         ELSE /\ clients' = r.clients
              /\ sendClosed' = r.closed
              /\ unregDone' = unregDone \cup {c}
              /\ UNCHANGED crashed
  /\ UNCHANGED <<dropped, regDone, tenantID, hws, wpump, lastFrame, send,
                 runPc, bcastVars>>
  /\ UNCHANGED <<rlVars, apiVars, tenantVars, feedVars>>

\* case <-ctx.Done(): return
RunDone ==
  /\ Running
  /\ runPc = "select"
  /\ runPc' = "stopped"
  /\ UNCHANGED <<connVars, send, mapVars, bcastVars, crashed>>
  /\ UNCHANGED <<rlVars, apiVars, tenantVars, feedVars>>

\* ------------------------------------------------------------- writePump
\* case message, ok := <-c.send with ok: WriteMessage(TextMessage, message)
\* either succeeds or returns an error (then the deferred c.conn.Close()).
WriteMessage(c) ==
  /\ Running
  /\ wpump[c] = "run"
  /\ send[c] # <<>>
  /\ send' = [send EXCEPT ![c] = Tail(@)]
  /\ \/ /\ c \notin ConnClosed
        /\ lastFrame' = [lastFrame EXCEPT ![c] = Head(send[c])]
        /\ UNCHANGED wpump
     \/ /\ wpump' = [wpump EXCEPT ![c] = "exited"]
        /\ UNCHANGED lastFrame
  /\ UNCHANGED <<tenantID, hws, rpump, mapVars, runVars, bcastVars, crashed>>
  /\ UNCHANGED <<rlVars, apiVars, tenantVars, feedVars>>

\* case message, ok := <-c.send with !ok: the channel is closed and drained;
\* WriteMessage(CloseMessage), return, c.conn.Close().
WriteCloseMessage(c) ==
  /\ Running
  /\ wpump[c] = "run"
  /\ send[c] = <<>>
  /\ c \in sendClosed
  /\ wpump' = [wpump EXCEPT ![c] = "exited"]
  /\ UNCHANGED <<tenantID, hws, rpump, lastFrame, send, mapVars, runVars,
                 bcastVars, crashed>>
  /\ UNCHANGED <<rlVars, apiVars, tenantVars, feedVars>>

\* case <-ticker.C: WriteMessage(PingMessage) returns an error.
\* (A ping that succeeds changes no state.)
WritePingError(c) ==
  /\ Running
  /\ wpump[c] = "run"
  /\ wpump' = [wpump EXCEPT ![c] = "exited"]
  /\ UNCHANGED <<tenantID, hws, rpump, lastFrame, send, mapVars, runVars,
                 bcastVars, crashed>>
  /\ UNCHANGED <<rlVars, apiVars, tenantVars, feedVars>>

\* -------------------------------------------------------------- readPump
\* ReadMessage returns an error (peer close, protocol error, pong deadline,
\* or the connection closed by writePump): break, then the deferred
\* h.unregister <- c blocks until Run receives.
ReadError(c) ==
  /\ Running
  /\ rpump[c] = "run"
  /\ rpump' = [rpump EXCEPT ![c] = "unregister"]
  /\ UNCHANGED <<tenantID, hws, wpump, lastFrame, send, mapVars, runVars,
                 bcastVars, crashed>>
  /\ UNCHANGED <<rlVars, apiVars, tenantVars, feedVars>>

\* ----------------------------------------------------- BroadcastToTenant
\* go h.hub.BroadcastToTenant(req.TenantID, event): json.Marshal, then
\* h.mu.RLock(): shared with other readers; Run's critical sections are
\* single steps, so no writer holds the lock between steps.
Publish(e, t) ==
  /\ Running
  /\ bpc[e] = "new"
  /\ IF e = 1 THEN TRUE ELSE bpc[e - 1] # "new"
  /\ bpc' = [bpc EXCEPT ![e] = "range"]
  /\ bTenant' = [bTenant EXCEPT ![e] = t]
  /\ before' = [before EXCEPT ![e] = {d \in Events : bpc[d] = "done"}]
  /\ UNCHANGED <<bClient, bSeen, bStale, bSent, connVars, send, mapVars,
                 runVars, crashed>>

\* A BroadcastToTenant goroutine for tenant t, the rest of the system idle.
BroadcastToTenant(e, t) ==
  /\ Publish(e, t)
  /\ UNCHANGED <<rlVars, apiVars, tenantVars, feedVars>>

\* The keys the range loop of publish e can still produce and that pass
\* if client.tenantID == tenantID.  A key another goroutine deleted during
\* the loop (a data race on the map) may or may not still be produced.
Pending(e) ==
  {c \in (RangeClients \cup bStale[e]) \ bSeen[e] :
     TenantMatch(c, bTenant[e])}
Remaining(e) ==
  {c \in RangeClients \ bSeen[e] : TenantMatch(c, bTenant[e])}

\* The next iteration of for client := range h.clients whose client passes
\* the tenant test (the iterations that fail it read only the immutable
\* client.tenantID and are skipped), up to the select.
BroadcastRange(e) ==
  /\ Running
  /\ bpc[e] = "range"
  /\ \E c \in Pending(e) :
       IF c \in sendClosed
         THEN \* case client.send <- data on a closed channel
              /\ crashed' = "send on closed channel"
              /\ UNCHANGED <<send, bSent, bpc, bClient, dropped, bSeen>>
         ELSE IF ~SendFull(send[c])
           THEN /\ send' = [send EXCEPT ![c] = Enqueue(@, e)]
                /\ bSent' = [bSent EXCEPT ![e][c] = @ + 1]
                /\ bSeen' = [bSeen EXCEPT ![e] = @ \cup {c}]
                /\ UNCHANGED <<bpc, bClient, dropped, crashed>>
           ELSE \* default:
                /\ bpc' = [bpc EXCEPT ![e] = "default"]
                /\ bClient' = [bClient EXCEPT ![e] = c]
                /\ dropped' = dropped \cup {c}
                /\ UNCHANGED <<send, bSent, bSeen, crashed>>
  /\ UNCHANGED <<clients, sendClosed, regDone, unregDone, bTenant, bStale,
                 before, connVars, runVars>>
  /\ UNCHANGED <<rlVars, apiVars, tenantVars, feedVars>>

\* default: close(client.send); delete(h.clients, client), under the READ
\* lock.  close panics on a channel that is already closed.  With another
\* goroutine inside its own range loop the delete is a data race on the
\* map: the runtime either detects it (fatal error) or the delete goes
\* through.
BroadcastDefault(e) ==
  /\ Running
  /\ bpc[e] = "default"
  /\ IF bClient[e] \in sendClosed
       THEN /\ crashed' = "close of closed channel"
            /\ UNCHANGED <<clients, sendClosed, bSeen, bStale, bpc, bClient>>
       ELSE \/ /\ sendClosed' = sendClosed \cup {bClient[e]}
               /\ clients' = clients \ {bClient[e]}
               /\ bSeen' = [bSeen EXCEPT ![e] = @ \cup {bClient[e]}]
               /\ bStale' = [d \in Events |->
                               IF /\ d \in Readers \ {e}
                                  /\ bClient[e] \notin bSeen[d]
                                 THEN bStale[d] \cup {bClient[e]}
                                 ELSE bStale[d]]
               /\ bpc' = [bpc EXCEPT ![e] = "range"]
               /\ bClient' = [bClient EXCEPT ![e] = NoClient]
               /\ UNCHANGED crashed
            \/ /\ Readers \ {e} # {}
               /\ sendClosed' = sendClosed \cup {bClient[e]}
               /\ crashed' = "concurrent map iteration and map write"
               /\ UNCHANGED <<clients, bSeen, bStale, bpc, bClient>>
  /\ UNCHANGED <<dropped, regDone, unregDone, bTenant, bSent, before,
                 connVars, send, runVars>>
  /\ UNCHANGED <<rlVars, apiVars, tenantVars, feedVars>>

\* The range loop ends; h.mu.RUnlock(); return nil.
BroadcastRUnlock(e) ==
  /\ Running
  /\ bpc[e] = "range"
  /\ Remaining(e) = {}
  /\ bpc' = [bpc EXCEPT ![e] = "done"]
  /\ bSeen' = [bSeen EXCEPT ![e] = {}]
  /\ bStale' = [bStale EXCEPT ![e] = {}]
  /\ bSent' = [bSent EXCEPT ![e] = NoneSent]
  /\ bTenant' = [bTenant EXCEPT ![e] = NoTenant]
  /\ UNCHANGED <<bClient, before, connVars, send, mapVars, runVars,
                 crashed>>
  /\ UNCHANGED <<rlVars, apiVars, tenantVars, feedVars>>

\* =========================================================== RateLimiter
\* t.After(windowStart)
AfterOrAt(t, windowStart) == t >= windowStart
AfterByTwo(t, windowStart) == t > windowStart + 1
After(t, windowStart) == t > windowStart

\* The loop that keeps the timestamps after windowStart.
ValidRequests(reqs, windowStart) ==
  SelectSeq(reqs, LAMBDA t : After(t, windowStart))

\* The Retry-After hint of the 429 response in clock ticks: the header is in
\* seconds, rl.window is time.Minute.
RetryAfterHalved == ((RetryAfter \div 2) * Window) \div SecondsPerMinute
RetryAfterTicks == (RetryAfter * Window) \div SecondsPerMinute

\* The record Allow stores when it rejects at clock reading t:
\* rl.requests[key] = validRequests; return false
RecordedOnReject(valid, t) == Append(valid, t)
StoredOnReject(valid, t) == valid

\* if len(validRequests) >= rl.limit
OverLimit(n, lim) == n > lim
AtLimit(n, lim) == n >= lim

\* rl.mu.Lock() can be taken: no goroutine holds the lock, for writing
\* (inside Allow) or for reading (inside GetRemainingRequests).
MuAlwaysFree(p) == TRUE
MuFree(p) ==
  \A q \in Callers \ {p} :
    cpc[q] \notin {"prune", "check", "unlock", "count", "runlock"}

\* rl.mu.RLock() can be taken: no goroutine holds or waits for the write
\* lock.
MuReadFree(p) ==
  \A q \in Callers \ {p} : cpc[q] \notin {"lock", "prune", "check", "unlock"}

\* Allow calls made so far.
AllowCalls ==
  Len(calls["A"]) + Len(calls["B"])
    + Cardinality({p \in Callers : cpc[p] \in {"lock", "prune", "check"}})

\* NewRateLimiter(requestsPerMinute)
LimiterInit ==
  /\ requests = [k \in Keys |-> <<>>]
  /\ now = 0
  /\ cpc = [p \in Callers |-> "idle"]
  /\ cKey = [p \in Callers |-> NoKey]
  /\ cNow = [p \in Callers |-> 0]
  /\ cValid = [p \in Callers |-> <<>>]
  /\ cResult = [p \in Callers |-> FALSE]
  /\ cRemaining = [p \in Callers |-> 0]
  /\ calls = [k \in Keys |-> <<>>]

\* The clock advances.
Tick ==
  /\ now < MaxTime
  /\ now' = now + 1
  /\ UNCHANGED <<requests, limit, cpc, cKey, cNow, cValid, cResult,
                 cRemaining, calls>>
  /\ UNCHANGED <<hubVars, apiVars, tenantVars, feedVars>>

\* A goroutine calls rl.Allow(key) and reaches rl.mu.Lock().
Allow(p, k) ==
  /\ cpc[p] = "idle"
  /\ AllowCalls < MaxCalls
  /\ cpc' = [cpc EXCEPT ![p] = "lock"]
  /\ cKey' = [cKey EXCEPT ![p] = k]
  /\ cValid' = [cValid EXCEPT ![p] = <<>>]
  /\ UNCHANGED <<requests, limit, now, cNow, cResult, cRemaining, calls>>
  /\ UNCHANGED <<hubVars, apiVars, tenantVars, feedVars>>

\* rl.mu.Lock() returns.
AllowLock(p) ==
  /\ cpc[p] = "lock"
  /\ MuFree(p)
  /\ cpc' = [cpc EXCEPT ![p] = "prune"]
  /\ UNCHANGED <<requests, limit, now, cKey, cNow, cValid, cResult,
                 cRemaining, calls>>
  /\ UNCHANGED <<hubVars, apiVars, tenantVars, feedVars>>

\* now := time.Now(); windowStart := now.Add(-rl.window);
\* requests := rl.requests[key]; the loop that fills validRequests.
AllowPrune(p) ==
  /\ cpc[p] = "prune"
  /\ cNow' = [cNow EXCEPT ![p] = now]
  /\ cValid' = [cValid EXCEPT ![p] =
                  ValidRequests(requests[cKey[p]], now - Window)]
  /\ cpc' = [cpc EXCEPT ![p] = "check"]
  /\ UNCHANGED <<requests, limit, now, cKey, cResult, cRemaining, calls>>
  /\ UNCHANGED <<hubVars, apiVars, tenantVars, feedVars>>

\* if len(validRequests) >= rl.limit { store; return false };
\* append now; store; return true
AllowCheck(p) ==
  /\ cpc[p] = "check"
  /\ LET ok == ~AtLimit(Len(cValid[p]), limit) IN
       /\ requests' = [requests EXCEPT ![cKey[p]] =
                         IF ok THEN Append(cValid[p], cNow[p])
                               ELSE StoredOnReject(cValid[p], cNow[p])]
       /\ cResult' = [cResult EXCEPT ![p] = ok]
       /\ calls' = [calls EXCEPT ![cKey[p]] =
                      Append(@, [t |-> cNow[p], ok |-> ok])]
  /\ cpc' = [cpc EXCEPT ![p] = "unlock"]
  /\ UNCHANGED <<limit, now, cKey, cNow, cValid, cRemaining>>
  /\ UNCHANGED <<hubVars, apiVars, tenantVars, feedVars>>

\* defer rl.mu.Unlock(); Allow returns and its locals are gone.
AllowUnlock(p) ==
  /\ cpc[p] = "unlock"
  /\ cpc' = [cpc EXCEPT ![p] = "idle"]
  /\ cKey' = [cKey EXCEPT ![p] = NoKey]
  /\ cNow' = [cNow EXCEPT ![p] = 0]
  /\ cValid' = [cValid EXCEPT ![p] = <<>>]
  /\ cResult' = [cResult EXCEPT ![p] = FALSE]
  /\ UNCHANGED <<requests, limit, now, cRemaining, calls>>
  /\ UNCHANGED <<hubVars, apiVars, tenantVars, feedVars>>

\* The value GetRemainingRequests computes at clock reading t.
RemainingUnpruned(reqs, t) ==
  LET remaining == limit - Len(reqs)
  IN IF remaining < 0 THEN 0 ELSE remaining
Remaining0(reqs, t) ==
  LET count == Len(ValidRequests(reqs, t - Window))
      remaining == limit - count
  IN IF remaining < 0 THEN 0 ELSE remaining

\* A goroutine calls rl.GetRemainingRequests(key); rl.mu.RLock() returns.
GetRemainingRequests(p, k) ==
  /\ cpc[p] = "idle"
  /\ MuReadFree(p)
  /\ cpc' = [cpc EXCEPT ![p] = "count"]
  /\ cKey' = [cKey EXCEPT ![p] = k]
  /\ UNCHANGED <<requests, limit, now, cNow, cValid, cResult, cRemaining,
                 calls>>
  /\ UNCHANGED <<hubVars, apiVars, tenantVars, feedVars>>

\* now := time.Now(); the counting loop; the clamp.
GetRemainingCount(p) ==
  /\ cpc[p] = "count"
  /\ cNow' = [cNow EXCEPT ![p] = now]
  /\ cRemaining' = [cRemaining EXCEPT ![p] =
                      Remaining0(requests[cKey[p]], now)]
  /\ cpc' = [cpc EXCEPT ![p] = "runlock"]
  /\ UNCHANGED <<requests, limit, now, cKey, cValid, cResult, calls>>
  /\ UNCHANGED <<hubVars, apiVars, tenantVars, feedVars>>

\* defer rl.mu.RUnlock(); GetRemainingRequests returns and its locals are
\* gone.
GetRemainingReturn(p) ==
  /\ cpc[p] = "runlock"
  /\ cpc' = [cpc EXCEPT ![p] = "idle"]
  /\ cKey' = [cKey EXCEPT ![p] = NoKey]
  /\ cNow' = [cNow EXCEPT ![p] = 0]
  /\ cRemaining' = [cRemaining EXCEPT ![p] = 0]
  /\ UNCHANGED <<requests, limit, now, cValid, cResult, calls>>
  /\ UNCHANGED <<hubVars, apiVars, tenantVars, feedVars>>

LimiterNext ==
  \/ Tick
  \/ \E p \in Callers, k \in Keys : Allow(p, k)
  \/ \E p \in Callers : AllowLock(p)
  \/ \E p \in Callers : AllowPrune(p)
  \/ \E p \in Callers : AllowCheck(p)
  \/ \E p \in Callers : AllowUnlock(p)
  \/ \E p \in Callers, k \in Keys : GetRemainingRequests(p, k)
  \/ \E p \in Callers : GetRemainingCount(p)
  \/ \E p \in Callers : GetRemainingReturn(p)

\* ============================================================== HTTP API
\* Ids a request can name: the tenants of the table and a well-formed id
\* of no tenant.
TenantIDs == Tenants \cup {"Z"}

\* Tenant.APIKey (uuid.New().String(), unique per tenant).
APIKey(t) ==
  IF t = "A" THEN "key-A" ELSE IF t = "B" THEN "key-B" ELSE "key-Z"
APIKeys == {APIKey(t) : t \in TenantIDs}

\* d.DB.First(&tenant, "api_key = ?", apiKey): the tenant, or NoTenant for
\* gorm.ErrRecordNotFound.
GetTenantByAPIKey(k) ==
  IF \E t \in Tenants : APIKey(t) = k
    THEN CHOOSE t \in Tenants : APIKey(t) = k
    ELSE NoTenant

\* d.DB.First(&tenant, "id = ?", id)
GetTenantByID(id) == IF id \in Tenants THEN id ELSE NoTenant

\* ------------------------------------------------------------------- JWT
\* m.jwtSecret
JwtSecret == "secret"

\* jwt.NewNumericDate(t): t.Truncate(jwt.TimePrecision), one second.
Truncate(t) == t - (t % TicksPerSecond)

\* HMAC-SHA256 over the encoded claims: it matches only the same claims
\* under the same secret.
Sign(claims, secret) == [claims |-> claims, secret |-> secret]

\* GenerateJWT(tenant) at clock reading t.
GenerateJWT(tenant, t) ==
  LET claims == [tenant |-> tenant,
                 apiKey |-> APIKey(tenant),
                 exp    |-> Truncate(t + JwtExpiry),
                 nbf    |-> Truncate(t)]
  IN [alg |-> "HS256", claims |-> claims, sig |-> Sign(claims, JwtSecret)]

\* The zero token.
NoToken ==
  LET claims == [tenant |-> NoTenant, apiKey |-> NoKey, exp |-> 0, nbf |-> 0]
  IN [alg |-> "", claims |-> claims, sig |-> Sign(claims, "")]

\* The validator's expiry test: now.Before(exp).
NeverExpires(t, exp) == TRUE
NotExpired(t, exp) == t < exp

\* validateJWT(tokenString) at clock reading t: the signing method is HMAC,
\* the signature verifies under m.jwtSecret, and the registered claims are
\* valid (exp, nbf).  On success the claims are the token's.
validateJWT(tok, t) ==
  /\ tok.alg \in {"HS256", "HS384", "HS512"}
  /\ tok.sig = Sign(tok.claims, JwtSecret)
  /\ NotExpired(t, tok.claims.exp)
  /\ t >= tok.claims.nbf

\* Tokens GenerateJWT has produced by clock reading t.
Issued(t) == {GenerateJWT(T, t0) : T \in Tenants, t0 \in 0..t}

\* Tokens a client can make up from a fresh one: another tenant's id or a
\* later expiry under the old signature, a signature under a guessed
\* secret, and an unsigned token.
Forged(t) ==
  LET fresh == {GenerateJWT(T, t) : T \in Tenants}
  IN ({[tok EXCEPT !.claims.tenant = T] : tok \in fresh, T \in Tenants}
        \cup {[tok EXCEPT !.claims.exp = @ + TicksPerSecond] : tok \in fresh}
        \cup {[tok EXCEPT !.sig.secret = "guess"] : tok \in fresh}
        \cup {[tok EXCEPT !.alg = "none"] : tok \in fresh})
     \ fresh

\* The credentials of a request: the Authorization header (a Bearer token
\* or none) and the API key header (NoKey: absent).
Creds(t) ==
  {[bearer |-> TRUE, token |-> tok, apiKey |-> k] :
     tok \in Issued(t) \cup Forged(t), k \in APIKeys \cup {NoKey}}
  \cup {[bearer |-> FALSE, token |-> NoToken, apiKey |-> k] :
          k \in APIKeys \cup {NoKey}}

\* ---------------------------------------------------------- Authenticate
\* if err == nil && tenant.Active
KeyFound(tenant) == tenant # NoTenant
KeyGrantsAccess(tenant) == tenant # NoTenant /\ active[tenant]

\* What Authenticate puts into the gin context for credentials cred at
\* clock reading t: the token first, then the API key.
Authenticated(cred, t) ==
  IF cred.bearer /\ validateJWT(cred.token, t)
    THEN [ok |-> TRUE, tenant |-> cred.token.claims.tenant, authType |-> "jwt"]
    ELSE IF cred.apiKey # NoKey /\ KeyGrantsAccess(GetTenantByAPIKey(cred.apiKey))
      THEN [ok |-> TRUE, tenant |-> GetTenantByAPIKey(cred.apiKey),
            authType |-> "api_key"]
      ELSE [ok |-> FALSE, tenant |-> NoTenant, authType |-> ""]

\* Why credentials are turned down: the branch of Authenticate that fails
\* last.
Cause(cred, t) ==
  IF cred.apiKey # NoKey
    THEN IF GetTenantByAPIKey(cred.apiKey) = NoTenant
           THEN "unknown key" ELSE "inactive tenant"
    ELSE IF cred.bearer THEN "invalid token" ELSE "missing credentials"

\* ------------------------------------------------------------- responses
NoResponse ==
  [status |-> 0, body |-> <<>>, retryAfter |-> 0, subject |-> NoTenant,
   token |-> NoToken]

\* c.JSON(status, body)
Response(status, body) == [NoResponse EXCEPT !.status = status, !.body = <<body>>]

\* c.JSON(http.StatusUnauthorized, gin.H{"error": "unauthorized",
\* "message": "Invalid or missing authentication credentials"})
UnauthorizedByCause(cause) == Response(StatusUnauthorized, cause)
Unauthorized(cause) ==
  Response(StatusUnauthorized,
           "unauthorized: Invalid or missing authentication credentials")

\* Retry-After: 60 and c.JSON(http.StatusTooManyRequests, ...)
RateLimitedNoHint == Response(StatusTooManyRequests, "rate_limit_exceeded")
RateLimited ==
  [Response(StatusTooManyRequests, "rate_limit_exceeded")
     EXCEPT !.retryAfter = RetryAfter]

\* --------------------------------------------------------------- actions
\* A request returns with response r: its goroutine is free again and its
\* context is gone.
Return(p, r) ==
  /\ apc' = [apc EXCEPT ![p] = "idle"]
  /\ resp' = r
  /\ ctxTenant' = [ctxTenant EXCEPT ![p] = NoTenant]
  /\ authType' = [authType EXCEPT ![p] = ""]
  /\ reqTenant' = [reqTenant EXCEPT ![p] = NoTenant]
  /\ created' = [created EXCEPT ![p] = FALSE]
  /\ handed' = [handed EXCEPT ![p] = 0]

\* c.Set("tenant_id", ...); c.Set("auth_type", ...); on to pc.
Proceed(p, tenant, auth, pc) ==
  /\ apc' = [apc EXCEPT ![p] = pc]
  /\ ctxTenant' = [ctxTenant EXCEPT ![p] = tenant]
  /\ authType' = [authType EXCEPT ![p] = auth]
  /\ UNCHANGED <<resp, reqTenant, created, handed>>

\* The server accepts a request and hands it to goroutine p.
Accept(p) ==
  /\ Running
  /\ apc[p] = "idle"
  /\ served < MaxReqs
  /\ served' = served + 1

\* A request to a route of the protected group arrives:
\* protected.Use(authMiddleware.Authenticate()).  On failure c.Abort() ends
\* the chain.
Authenticate(p) ==
  /\ Accept(p)
  /\ \E cred \in Creds(now) :
       LET a == Authenticated(cred, now)
       IN IF a.ok
            THEN Proceed(p, a.tenant, a.authType, "limit")
            ELSE Return(p, Unauthorized(Cause(cred, now)))
  /\ UNCHANGED <<tenantVars, feedVars, active, events, hubVars, rlVars>>

\* protected.Use(rateLimiter.RateLimitMiddleware(true)): rl.Allow(tenantID)
\* under rl.mu, then either the 429 response and c.Abort() or c.Next().
RateLimitMiddleware(p) ==
  /\ Running
  /\ apc[p] = "limit"
  /\ MuFree(p)
  /\ LET k == ctxTenant[p]
         valid == ValidRequests(requests[k], now - Window)
         ok == ~AtLimit(Len(valid), limit)
     IN /\ requests' = [requests EXCEPT
                          ![k] = IF ok THEN Append(valid, now)
                                       ELSE StoredOnReject(valid, now)]
        /\ calls' = [calls EXCEPT ![k] = Append(@, [t |-> now, ok |-> ok])]
        /\ IF ok
             THEN Proceed(p, ctxTenant[p], authType[p], "handler")
             ELSE Return(p, RateLimited)
  /\ UNCHANGED <<limit, now, cpc, cKey, cNow, cValid, cResult, cRemaining>>
  /\ UNCHANGED <<tenantVars, feedVars, active, events, served, hubVars>>

\* IngestEvent up to CreateEvent: the status it answers with before storing
\* anything, 0 when the request goes on to CreateEvent.
IngestCheck(wellFormed, id, lookupErr) ==
  IF ~wellFormed THEN StatusBadRequest
  ELSE IF id \notin TenantIDs THEN StatusBadRequest
  ELSE IF lookupErr THEN StatusInternalServerError
  ELSE IF GetTenantByID(id) = NoTenant THEN StatusNotFound
  ELSE IF ~active[id] THEN StatusForbidden
  ELSE 0

\* if err := h.db.CreateEvent(event); err != nil { c.JSON(500...); return }
AlwaysGo(err) == "go"
AfterCreateEvent(err) == IF err THEN "idle" ELSE "go"

\* POST /events: from c.ShouldBindJSON(&req) to h.db.CreateEvent(event).
\* The tenant is req.TenantID, a field of the body.
IngestEvent(p) ==
  /\ Running
  /\ apc[p] = "handler"
  /\ Len(events) < MaxEvents
  /\ \E wellFormed \in BOOLEAN, id \in TenantIDs \cup {"not-a-uuid"},
        lookupErr \in BOOLEAN, createErr \in BOOLEAN :
       LET status == IngestCheck(wellFormed, id, lookupErr)
       IN IF status # 0
            THEN /\ Return(p, Response(status, "error"))
                 /\ UNCHANGED events
            ELSE /\ events' = IF createErr THEN events ELSE Append(events, id)
                 /\ IF AfterCreateEvent(createErr) = "idle"
                      THEN Return(p, Response(StatusInternalServerError,
                                              "create event"))
                      ELSE /\ apc' = [apc EXCEPT ![p] = "go"]
                           /\ created' = [created EXCEPT ![p] = ~createErr]
                           /\ reqTenant' = [reqTenant EXCEPT ![p] = id]
                           /\ UNCHANGED <<resp, ctxTenant, authType, handed>>
  /\ UNCHANGED <<tenantVars, feedVars, active, served, hubVars, rlVars>>

\* go h.hub.BroadcastToTenant(req.TenantID, event), up to the new
\* goroutine's h.mu.RLock().
GoBroadcast(p) ==
  /\ apc[p] = "go"
  /\ \E e \in Events : Publish(e, reqTenant[p])
  /\ apc' = [apc EXCEPT ![p] = "respond"]
  /\ handed' = [handed EXCEPT ![p] = @ + 1]
  /\ UNCHANGED <<tenantVars, feedVars, active, events, served, ctxTenant, authType, resp, created,
                 reqTenant, rlVars>>

\* c.JSON(http.StatusCreated, ...)
IngestRespond(p) ==
  /\ Running
  /\ apc[p] = "respond"
  /\ Return(p, [Response(StatusCreated, "event") EXCEPT !.subject = reqTenant[p]])
  /\ UNCHANGED <<tenantVars, feedVars, active, events, served, hubVars, rlVars>>

\* The answer of a handler that looks the tenant of the path up.
ByPathID(id, lookupErr, r) ==
  IF id \notin TenantIDs THEN Response(StatusBadRequest, "bad_request")
  ELSE IF lookupErr THEN Response(StatusInternalServerError, "internal_error")
  ELSE IF GetTenantByID(id) = NoTenant THEN Response(StatusNotFound, "not_found")
  ELSE r

\* GET /tenants/:id: the tenant of the path, its api_key included.
GetTenant(p) ==
  /\ Running
  /\ apc[p] = "handler"
  /\ \E id \in TenantIDs \cup {"not-a-uuid"}, lookupErr \in BOOLEAN :
       Return(p, ByPathID(id, lookupErr,
                   [Response(StatusOK, APIKey(id)) EXCEPT !.subject = id]))
  /\ UNCHANGED <<tenantVars, feedVars, active, events, served, hubVars, rlVars>>

\* GET /tenants/:id/token: a token for the tenant of the path.
GetAuthToken(p) ==
  /\ Running
  /\ apc[p] = "handler"
  /\ \E id \in TenantIDs \cup {"not-a-uuid"}, lookupErr \in BOOLEAN :
       Return(p, ByPathID(id, lookupErr,
                   [Response(StatusOK, "token")
                      EXCEPT !.subject = id, !.token = GenerateJWT(id, now)]))
  /\ UNCHANGED <<tenantVars, feedVars, active, events, served, hubVars, rlVars>>

\* GET /events and GET /events/stats: the rows of c.GetString("tenant_id").
GetEvents(p) ==
  /\ Running
  /\ apc[p] = "handler"
  /\ \E badQuery \in BOOLEAN, dbErr \in BOOLEAN :
       Return(p, IF badQuery
                   THEN Response(StatusBadRequest, "bad_request")
                   ELSE IF dbErr
                     THEN Response(StatusInternalServerError, "internal_error")
                     ELSE [Response(StatusOK, "events")
                             EXCEPT !.subject = ctxTenant[p]])
  /\ UNCHANGED <<tenantVars, feedVars, active, events, served, hubVars, rlVars>>

\* Client slots not yet taken by a connection or an upgrade under way.
FreeConns ==
  MaxConns - Cardinality({c \in Conns : hws[c] # "none"})
           - Cardinality({q \in Callers : apc[q] = "register"})

\* h.upgrader.Upgrade(c.Writer, c.Request, nil) in HandleWebSocket.
Upgrade(p, tenant, auth) ==
  \E upgradeOk \in BOOLEAN :
    IF upgradeOk
      THEN Proceed(p, tenant, auth, "register")
      ELSE Return(p, Response(StatusBadRequest, "upgrade"))

\* GET /ws (main.go): the api_key query parameter first; otherwise
\* authMiddleware.Authenticate()(c) and then hub.HandleWebSocket(c) whatever
\* it decided, which answers 401 once more when tenant_id is empty.
WsEndpoint(p) ==
  /\ Accept(p)
  /\ FreeConns > 0
  /\ \E queryKey \in APIKeys \cup {NoKey} :
       IF queryKey # NoKey /\ KeyGrantsAccess(GetTenantByAPIKey(queryKey))
         THEN Upgrade(p, GetTenantByAPIKey(queryKey), "api_key")
         ELSE \E cred \in Creds(now) :
                LET a == Authenticated(cred, now)
                IN IF a.ok
                     THEN Upgrade(p, a.tenant, a.authType)
                     ELSE Return(p, [Unauthorized(Cause(cred, now))
                                       EXCEPT !.body = Append(@, "unauthorized")])
  /\ UNCHANGED <<tenantVars, feedVars, active, events, hubVars, rlVars>>

\* HandleWebSocket after the upgrade: h.register <- client, the pumps.
WsRegister(p) ==
  /\ apc[p] = "register"
  /\ \E c \in Conns : Register(c, ctxTenant[p])
  /\ Return(p, [Response(StatusSwitchingProtocols, "upgrade")
                  EXCEPT !.subject = ctxTenant[p]])
  /\ UNCHANGED <<tenantVars, feedVars, active, events, served, rlVars>>

\* ========================================================= CreateTenant
\* Names a CreateTenant request can carry; "ab" fails validateTenantName
\* (fewer than 3 characters).
TenantNames == {"acme", "globex"}
ShortName == "ab"

\* d.DB.First(&tenant, "name = ?", name): whether a row is found.
GetTenantByName(rows, name) == \E i \in DOMAIN rows : rows[i] = name

\* CreateTenant up to its decision to create: the status it answers with,
\* 0 when it goes on to h.db.CreateTenant.
CreateTenantCheck(wellFormed, name, lookupErr, rows) ==
  IF ~wellFormed THEN StatusBadRequest
  ELSE IF name = ShortName THEN StatusBadRequest
  ELSE IF lookupErr THEN StatusInternalServerError
  ELSE IF GetTenantByName(rows, name) THEN StatusConflict
  ELSE 0

\* POST /api/v1/tenants, a public route: ShouldBindJSON, validateTenantName
\* and the look-up by name.
CreateTenantLookup(p) ==
  /\ tpc[p] = "idle"
  /\ Len(tenantRows) + Cardinality({q \in Callers : tpc[q] = "create"})
       < MaxTenantRows
  /\ \E wellFormed \in BOOLEAN, name \in TenantNames \cup {ShortName},
        lookupErr \in BOOLEAN :
       LET status == CreateTenantCheck(wellFormed, name, lookupErr, tenantRows)
       IN IF status # 0
            THEN /\ tResp' = [tResp EXCEPT ![p] = status]
                 /\ UNCHANGED <<tpc, tName>>
            ELSE /\ tpc' = [tpc EXCEPT ![p] = "create"]
                 /\ tName' = [tName EXCEPT ![p] = name]
                 /\ tResp' = [tResp EXCEPT ![p] = 0]
  /\ UNCHANGED <<tenantRows, feedVars, hubVars, rlVars, apiVars>>

\* h.db.CreateTenant(tenant) with a fresh id and API key, then the answer.
CreateTenantInsert(p) ==
  /\ tpc[p] = "create"
  /\ \E createErr \in BOOLEAN :
       IF createErr
         THEN /\ tResp' = [tResp EXCEPT ![p] = StatusInternalServerError]
              /\ UNCHANGED tenantRows
         ELSE /\ tenantRows' = Append(tenantRows, tName[p])
              /\ tResp' = [tResp EXCEPT ![p] = StatusCreated]
  /\ tpc' = [tpc EXCEPT ![p] = "idle"]
  /\ tName' = [tName EXCEPT ![p] = ""]
  /\ UNCHANGED <<feedVars, hubVars, rlVars, apiVars>>

\* An empty tenants table, no CreateTenant request being served.
TenantsInit ==
  /\ tenantRows = <<>>
  /\ tpc = [p \in Callers |-> "idle"]
  /\ tName = [p \in Callers |-> ""]
  /\ tResp = [p \in Callers |-> 0]

\* ============================================================ EventFeed
Sockets == 1..MaxSockets
Mounts == 1..MaxMounts
NoSocket == 0

\* A WebSocket that is CONNECTING or OPEN.
Live(ss) == {s \in Sockets : ss[s].state \in {"connecting", "open"}}
Created(ss) == {s \in Sockets : ss[s].state # "none"}
\* The WebSocket the next new WebSocket(wsUrl) makes.
NewSocket(ss) == Cardinality(Created(ss)) + 1

\* new WebSocket(`${WS_URL}?api_key=${tenantApiKey}`) in the closure of
\* the effect run with key k of component instance i.
connectWebSocket(ss, k, i) ==
  [ss EXCEPT ![NewSocket(ss)] = [state |-> "connecting", key |-> k, inst |-> i]]

\* The effect's cleanup: if (wsRef.current) wsRef.current.close().  close()
\* on a socket that is already closing or closed does nothing.
Cleanup(ss, ref) ==
  IF ref # NoSocket /\ ss[ref].state \in {"connecting", "open"}
    THEN [ss EXCEPT ![ref].state = "closing"]
    ELSE ss

\* The component is rendered with tenant key k: mounted, or re-rendered
\* with a changed tenantApiKey.  React runs the cleanup of the previous
\* effect run, then the effect: connectWebSocket().
Render(k) ==
  /\ k # tenantApiKey
  /\ NewSocket(sockets) \in Sockets
  /\ IF tenantApiKey = NoKey
       THEN /\ instance < MaxMounts
            /\ instance' = instance + 1
            /\ sockets' = connectWebSocket(sockets, k, instance + 1)
            /\ wsRef' = [wsRef EXCEPT ![instance + 1] = NewSocket(sockets)]
       ELSE /\ instance' = instance
            /\ sockets' = connectWebSocket(Cleanup(sockets, wsRef[instance]),
                                           k, instance)
            /\ wsRef' = [wsRef EXCEPT ![instance] = NewSocket(sockets)]
  /\ tenantApiKey' = k
  /\ UNCHANGED <<timers, tenantVars, hubVars, rlVars, apiVars>>

\* selectedTenant becomes null: the component unmounts and the cleanup runs.
Unmount ==
  /\ tenantApiKey # NoKey
  /\ tenantApiKey' = NoKey
  /\ sockets' = Cleanup(sockets, wsRef[instance])
  /\ UNCHANGED <<instance, wsRef, timers, tenantVars, hubVars, rlVars, apiVars>>

\* ws.onopen
OnOpen(s) ==
  /\ sockets[s].state = "connecting"
  /\ sockets' = [sockets EXCEPT ![s].state = "open"]
  /\ UNCHANGED <<tenantApiKey, instance, wsRef, timers, tenantVars, hubVars,
                 rlVars, apiVars>>

\* ws.onclose, after the connection failed, the server closed it or close()
\* completed: setTimeout(connectWebSocket, 3000).
OnClose(s) ==
  /\ sockets[s].state \in {"connecting", "open", "closing"}
  /\ sockets' = [sockets EXCEPT ![s].state = "closed"]
  /\ timers' = timers \cup {s}
  /\ UNCHANGED <<tenantApiKey, instance, wsRef, tenantVars, hubVars, rlVars,
                 apiVars>>

\* The timer set by the onclose of socket s fires: connectWebSocket() of
\* the closure that created s; wsRef.current = ws.
ReconnectTimer(s) ==
  /\ s \in timers
  /\ NewSocket(sockets) \in Sockets
  /\ timers' = timers \ {s}
  /\ sockets' = connectWebSocket(sockets, sockets[s].key, sockets[s].inst)
  /\ wsRef' = [wsRef EXCEPT ![sockets[s].inst] = NewSocket(sockets)]
  /\ UNCHANGED <<tenantApiKey, instance, tenantVars, hubVars, rlVars, apiVars>>

\* The dashboard before a tenant is selected.
FeedInit ==
  /\ tenantApiKey = NoKey
  /\ instance = 0
  /\ wsRef = [i \in Mounts |-> NoSocket]
  /\ sockets = [s \in Sockets |-> [state |-> "none", key |-> NoKey, inst |-> 0]]
  /\ timers = {}

\* The server before its first request: no rows in the events table, every
\* goroutine idle.
ApiInit ==
  /\ events = <<>>
  /\ served = 0
  /\ apc = [p \in Callers |-> "idle"]
  /\ ctxTenant = [p \in Callers |-> NoTenant]
  /\ authType = [p \in Callers |-> ""]
  /\ resp = NoResponse
  /\ created = [p \in Callers |-> FALSE]
  /\ handed = [p \in Callers |-> 0]
  /\ reqTenant = [p \in Callers |-> NoTenant]
  /\ TenantsInit /\ FeedInit

\* Every tenant row as CreateTenant writes it: Active: true.
AllActive == [t \in Tenants |-> TRUE]

ApiNext ==
  \/ \E p \in Servers : Authenticate(p)
  \/ \E p \in Servers : RateLimitMiddleware(p)
  \/ \E p \in Servers : IngestEvent(p)
  \/ \E p \in Servers : GoBroadcast(p)
  \/ \E p \in Servers : IngestRespond(p)
  \/ \E p \in Servers : GetTenant(p)
  \/ \E p \in Servers : GetAuthToken(p)
  \/ \E p \in Servers : GetEvents(p)
  \/ \E p \in Servers : WsEndpoint(p)
  \/ \E p \in Servers : WsRegister(p)

\* ------------------------------------------------------------------ Next
HubNext ==
  \/ \E c \in Conns, t \in Tenants : HandleWebSocket(c, t)
  \/ \E c \in Conns : RunUnregister(c)
  \/ RunDone
  \/ \E c \in Conns : WriteMessage(c)
  \/ \E c \in Conns : WriteCloseMessage(c)
  \/ \E c \in Conns : WritePingError(c)
  \/ \E c \in Conns : ReadError(c)
  \/ \E e \in Events, t \in Tenants : BroadcastToTenant(e, t)
  \/ \E e \in Events : BroadcastRange(e)
  \/ \E e \in Events : BroadcastDefault(e)
  \/ \E e \in Events : BroadcastRUnlock(e)

\* The hub, with the rate limiter constructed and idle.
Init ==
  /\ HubInit /\ LimiterInit /\ ApiInit
  /\ limit = MaxLimit
  /\ active = AllActive
Next == HubNext
Spec == Init /\ [][Next]_vars

\* The rate limiter, with the hub constructed and idle.
InitLimiter ==
  /\ HubInit /\ LimiterInit /\ ApiInit
  /\ limit \in 0..MaxLimit
  /\ active = AllActive
NextLimiter == LimiterNext
SpecLimiter == InitLimiter /\ [][NextLimiter]_vars

\* The server: requests come in over HTTP, pass the middleware chain and
\* reach the handlers, which register clients with the hub and publish to
\* it; the hub fans out and the write loops drain the queues.  The tenants
\* table holds an active tenant and one of either Active value.  The clock
\* stands still, and connections stay open (Spec has their life cycle).
InitApi ==
  /\ HubInit /\ LimiterInit /\ ApiInit
  /\ limit = MaxLimit
  /\ active \in {AllActive, [AllActive EXCEPT !["B"] = FALSE]}
NextApi ==
  \/ ApiNext
  \/ \E c \in Conns : WriteMessage(c)
  \/ \E e \in Events : BroadcastRange(e)
  \/ \E e \in Events : BroadcastDefault(e)
  \/ \E e \in Events : BroadcastRUnlock(e)
SpecApi == InitApi /\ [][NextApi]_vars

\* Ingestion with a subscriber that is connected from the start: client 1
\* of tenant "A" is registered and its pumps run before the first request
\* arrives, and nobody registers or unregisters afterwards.
InitOrder ==
  /\ LimiterInit /\ ApiInit
  /\ limit = MaxLimit
  /\ active = AllActive
  /\ clients = {1}
  /\ tenantID = [c \in Conns |-> IF c = 1 THEN "A" ELSE NoTenant]
  /\ send = [c \in Conns |-> <<>>]
  /\ sendClosed = {}
  /\ lastFrame = [c \in Conns |-> NoEvent]
  /\ hws = [c \in Conns |-> IF c = 1 THEN "started" ELSE "none"]
  /\ wpump = [c \in Conns |-> IF c = 1 THEN "run" ELSE "none"]
  /\ rpump = [c \in Conns |-> IF c = 1 THEN "run" ELSE "none"]
  /\ runPc = "select"
  /\ bpc = [e \in Events |-> "new"]
  /\ bTenant = [e \in Events |-> NoTenant]
  /\ bClient = [e \in Events |-> NoClient]
  /\ bSeen = [e \in Events |-> {}]
  /\ bStale = [e \in Events |-> {}]
  /\ bSent = [e \in Events |-> NoneSent]
  /\ crashed = ""
  /\ dropped = {}
  /\ regDone = {1}
  /\ unregDone = {}
  /\ before = [e \in Events |-> {}]
NextOrder ==
  \/ \E p \in Servers : Authenticate(p)
  \/ \E p \in Servers : RateLimitMiddleware(p)
  \/ \E p \in Servers : IngestEvent(p)
  \/ \E p \in Servers : GoBroadcast(p)
  \/ \E p \in Servers : IngestRespond(p)
  \/ \E c \in Conns : WriteMessage(c)
  \/ \E e \in Events : BroadcastRange(e)
  \/ \E e \in Events : BroadcastDefault(e)
  \/ \E e \in Events : BroadcastRUnlock(e)
SpecOrder == InitOrder /\ [][NextOrder]_vars

\* Concurrent POST /api/v1/tenants requests.
InitTenants ==
  /\ HubInit /\ LimiterInit /\ ApiInit
  /\ limit = MaxLimit
  /\ active = AllActive
NextTenants ==
  \/ \E p \in Callers : CreateTenantLookup(p)
  \/ \E p \in Callers : CreateTenantInsert(p)
SpecTenants == InitTenants /\ [][NextTenants]_vars

\* The dashboard's live feed: tenant selections, socket events and timers.
InitFeed ==
  /\ HubInit /\ LimiterInit /\ ApiInit
  /\ limit = MaxLimit
  /\ active = AllActive
NextFeed ==
  \/ \E t \in Tenants : Render(APIKey(t))
  \/ Unmount
  \/ \E s \in Sockets : OnOpen(s)
  \/ \E s \in Sockets : OnClose(s)
  \/ \E s \in Sockets : ReconnectTimer(s)
SpecFeed == InitFeed /\ [][NextFeed]_vars

\* The read routes of the protected group as the clock advances: tokens are
\* issued, age and expire, and the rate limiter's window slides.
InitAuth ==
  /\ HubInit /\ LimiterInit /\ ApiInit
  /\ limit = MaxLimit
  /\ active \in {AllActive, [AllActive EXCEPT !["B"] = FALSE]}
NextAuth ==
  \/ Tick
  \/ \E p \in Servers : Authenticate(p)
  \/ \E p \in Servers : RateLimitMiddleware(p)
  \/ \E p \in Servers : GetTenant(p)
  \/ \E p \in Servers : GetAuthToken(p)
  \/ \E p \in Servers : GetEvents(p)
SpecAuth == InitAuth /\ [][NextAuth]_vars

\* The hub under the scheduling Go guarantees: a goroutine that can take
\* its next step takes it.  Run receives a pending unregister once no
\* publish holds the read lock, a publish inside its loop goes on, the
\* write loop receives from its queue, and ReadMessage returns an error
\* once the connection is closed.  What the peer and the network do (a
\* close, a failed ping) and the cancellation of the context are not
\* forced to happen.
LiveConns == 1..MaxLiveConns
NextLive ==
  \/ \E c \in LiveConns, t \in Tenants : HandleWebSocket(c, t)
  \/ \E c \in Conns : RunUnregister(c)
  \/ RunDone
  \/ \E c \in Conns : WriteMessage(c)
  \/ \E c \in Conns : WriteCloseMessage(c)
  \/ \E c \in Conns : WritePingError(c)
  \/ \E c \in Conns : ReadError(c)
  \/ \E e \in Events, t \in Tenants : BroadcastToTenant(e, t)
  \/ \E e \in Events : BroadcastRange(e)
  \/ \E e \in Events : BroadcastDefault(e)
  \/ \E e \in Events : BroadcastRUnlock(e)
Scheduling ==
  /\ \A c \in Conns : WF_vars(RunUnregister(c))
  /\ \A c \in Conns : WF_vars(WriteMessage(c))
  /\ \A c \in Conns : WF_vars(WriteCloseMessage(c))
  /\ \A c \in Conns : WF_vars(ReadError(c) /\ c \in ConnClosed)
  /\ \A e \in Events : WF_vars(BroadcastRange(e))
  /\ \A e \in Events : WF_vars(BroadcastDefault(e))
  /\ \A e \in Events : WF_vars(BroadcastRUnlock(e))
SpecLive == Init /\ [][NextLive]_vars /\ Scheduling

\* The hub with a slow consumer: client 1 of tenant A is registered, its
\* peer has stopped reading, and earlier publishes, all returned, have
\* filled its queue (their payloads are not those of this run's publishes).
\* No other client connects.
Backlog == [i \in 1..QueueCap |-> NoEvent]
InitBacklog ==
  /\ LimiterInit /\ ApiInit
  /\ limit = MaxLimit
  /\ active = AllActive
  /\ clients = {1}
  /\ tenantID = [c \in Conns |-> IF c = 1 THEN "A" ELSE NoTenant]
  /\ send = [c \in Conns |-> IF c = 1 THEN Backlog ELSE <<>>]
  /\ sendClosed = {}
  /\ lastFrame = [c \in Conns |-> NoEvent]
  /\ hws = [c \in Conns |-> IF c = 1 THEN "started" ELSE "none"]
  /\ wpump = [c \in Conns |-> IF c = 1 THEN "run" ELSE "none"]
  /\ rpump = [c \in Conns |-> IF c = 1 THEN "run" ELSE "none"]
  /\ runPc = "select"
  /\ bpc = [e \in Events |-> "new"]
  /\ bTenant = [e \in Events |-> NoTenant]
  /\ bClient = [e \in Events |-> NoClient]
  /\ bSeen = [e \in Events |-> {}]
  /\ bStale = [e \in Events |-> {}]
  /\ bSent = [e \in Events |-> NoneSent]
  /\ crashed = ""
  /\ dropped = {}
  /\ regDone = {1}
  /\ unregDone = {}
  /\ before = [e \in Events |-> {}]
NextBacklog ==
  \/ \E c \in Conns : RunUnregister(c)
  \/ RunDone
  \/ \E c \in Conns : WriteMessage(c)
  \/ \E c \in Conns : WriteCloseMessage(c)
  \/ \E c \in Conns : WritePingError(c)
  \/ \E c \in Conns : ReadError(c)
  \/ \E e \in Events, t \in Tenants : BroadcastToTenant(e, t)
  \/ \E e \in Events : BroadcastRange(e)
  \/ \E e \in Events : BroadcastDefault(e)
  \/ \E e \in Events : BroadcastRUnlock(e)
SpecBacklog == InitBacklog /\ [][NextBacklog]_vars

\* ================================================================ claims
\* The payloads client c has been handed so far that are still known: the
\* last frame its write loop sent, followed by the queued payloads.
Stream(c) ==
  IF lastFrame[c] = NoEvent THEN send[c] ELSE <<lastFrame[c]>> \o send[c]

\* C1: as long as no outbound queue has overflowed, a publish for tenant T
\* that returns has enqueued its payload exactly once on the queue of every
\* client in h.clients whose tenant is T and on no other client's queue.
C1_TenantFanOut ==
  [][\A e \in Events :
       (bpc[e] = "range" /\ bpc'[e] = "done" /\ dropped = {}) =>
         \A c \in Conns :
           bSent[e][c] =
             IF c \in clients /\ tenantID[c] = bTenant[e] THEN 1 ELSE 0]_vars

\* Tenant A and tenant B each have a live client; a publish for A is about
\* to return having reached A's client only, after a publish for B reached
\* B's client only.
C1_Witness ==
  /\ dropped = {}
  /\ clients = {1, 2}
  /\ tenantID[1] = "A" /\ tenantID[2] = "B"
  /\ \E e \in Events, d \in Events :
       /\ bpc[e] = "range" /\ bTenant[e] = "A" /\ Remaining(e) = {}
       /\ bSent[e][1] = 1 /\ bSent[e][2] = 0
       /\ bpc[d] = "done" /\ d \in before[e]
       /\ lastFrame[2] = d /\ lastFrame[1] = NoEvent /\ send[1] = <<e>>

\* C2: a publish that has started is never stuck: whatever the state of
\* the subscribers' queues, it has a step to take until it returns.
C2_PublishNeverStuck ==
  \A e \in Events :
    bpc[e] \in {"range", "default"} =>
      ENABLED (BroadcastRange(e) \/ BroadcastDefault(e) \/ BroadcastRUnlock(e))

\* C3: the default branch of a publish that found a client's queue full
\* closes that queue and removes the client from h.clients, and nothing is
\* enqueued afterwards on a client that was dropped.
C3_FullQueueDropped ==
  [][/\ \A e \in Events :
          BroadcastDefault(e) =>
            /\ crashed' = ""
            /\ bClient[e] \notin clients'
            /\ bClient[e] \in sendClosed'
     /\ \A c \in dropped : Len(send'[c]) <= Len(send[c])]_vars

C5_Fifo ==
  \A c \in Conns :
    \A i \in DOMAIN Stream(c), j \in DOMAIN Stream(c) :
      i < j => /\ Stream(c)[i] # Stream(c)[j]
               /\ Stream(c)[j] \notin before[Stream(c)[i]]

\* The write loop of a client sent e1 and e2 is queued behind it, where
\* the publish of e1 had returned before the publish of e2 was invoked.
C5_Witness ==
  \E c \in Conns :
    /\ lastFrame[c] # NoEvent
    /\ send[c] # <<>>
    /\ lastFrame[c] \in before[send[c][1]]
    /\ c \in clients

\* C6: unregistering is idempotent.  When Run processes an unregister of a
\* client that is not in h.clients nothing changes and nothing panics, and
\* applying the unregister body twice gives the state of applying it once.
C6_UnregisterIdempotent ==
  [][\A c \in Conns :
       RunUnregister(c) =>
         LET r1 == Unregister(clients, sendClosed, c)
             r2 == Unregister(r1.clients, r1.closed, c)
         IN /\ crashed' = ""
            /\ c \notin clients =>
                 /\ clients' = clients
                 /\ sendClosed' = sendClosed
                 /\ send' = send
            /\ r2.panic = ""
            /\ r2.clients = r1.clients
            /\ r2.closed = r1.closed
            /\ clients' = r1.clients
            /\ sendClosed' = r1.closed]_vars

\* A client that a publish dropped for overflow was later unregistered by
\* its read loop, and the process is still running.
C6_Witness ==
  /\ Running
  /\ dropped \cap unregDone # {}

\* The Allow decisions for key k that admitted the request at a time in
\* the trailing interval (t - Window, t].
AdmittedIn(k, t) ==
  {i \in DOMAIN calls[k] :
     calls[k][i].ok /\ calls[k][i].t > t - Window /\ calls[k][i].t <= t}

C8_FirstCallsStrict ==
  \A k \in Keys :
    limit >= 1 =>
      \A i \in DOMAIN calls[k] :
        /\ i <= limit => calls[k][i].ok
        /\ (i = limit + 1 /\ calls[k][i].t - calls[k][1].t < Window) =>
             ~calls[k][i].ok

\* C8 (as claimed): ... and call limit + 1 is rejected when it is made
\* within an interval of duration <= Window that starts at the first call.
C8_FirstCalls ==
  \A k \in Keys :
    limit >= 1 =>
      \A i \in DOMAIN calls[k] :
        /\ i <= limit => calls[k][i].ok
        /\ (i = limit + 1 /\ calls[k][i].t - calls[k][1].t <= Window) =>
             ~calls[k][i].ok

\* With limit = 2, two calls were admitted and a third, made one tick
\* before the window of the first ran out, was rejected.
C8_Witness ==
  \E k \in Keys :
    /\ limit = 2
    /\ Len(calls[k]) >= 3
    /\ calls[k][1].ok /\ calls[k][2].ok /\ ~calls[k][3].ok
    /\ calls[k][3].t = calls[k][1].t + Window - 1

\* C9: recovery after the window.  When the record of a key holds limit
\* admissions (limit >= 1) and Allow runs at a time at least Window after
\* the oldest of them, exactly Window included, the request is admitted.
C9_RecoversAfterWindow ==
  [][\A p \in Callers :
       AllowCheck(p) =>
         LET r == requests[cKey[p]] IN
           (limit >= 1 /\ Len(r) = limit /\ cNow[p] - r[1] >= Window) =>
             cResult'[p]]_vars

\* With limit = 1 a key was admitted, rejected inside the window, and
\* admitted again exactly Window after the first admission.
C9_Witness ==
  \E k \in Keys :
    /\ limit = 1
    /\ Len(calls[k]) >= 3
    /\ calls[k][1].ok /\ ~calls[k][2].ok /\ calls[k][3].ok
    /\ calls[k][3].t = calls[k][1].t + Window

\* C10: Allow's prune-check-append is atomic.  At most one goroutine is
\* between rl.mu.Lock() and rl.mu.Unlock(), and every decision is the one
\* the record of the key calls for at the moment it is taken: the request
\* is admitted exactly when fewer than limit recorded timestamps are inside
\* the window, and the record stored is that window plus, if admitted, now.
C10_AllowAtomic ==
  [][/\ Cardinality({p \in Callers :
                       cpc[p] \in {"prune", "check", "unlock"}}) <= 1
     /\ \A p \in Callers :
          AllowCheck(p) =>
            LET k == cKey[p]
                valid == SelectSeq(requests[k],
                                   LAMBDA t : t > cNow[p] - Window)
            IN /\ cResult'[p] = (Len(valid) < limit)
               /\ requests'[k] = IF Len(valid) < limit
                                   THEN Append(valid, cNow[p])
                                   ELSE valid
               /\ Len(requests'[k]) <= limit]_vars

\* Two goroutines are inside Allow for the same key: one has just been
\* admitted into the last slot and still holds the lock, the other waits
\* for the lock and finds no slot left.
C10_Witness ==
  \E p \in Callers, q \in Callers :
    /\ p # q
    /\ limit >= 1
    /\ cpc[p] = "unlock" /\ cResult[p]
    /\ cpc[q] = "lock" /\ cKey[q] = cKey[p]
    /\ Len(requests[cKey[p]]) = limit
    /\ \A i \in DOMAIN requests[cKey[p]] :
         requests[cKey[p]][i] > now - Window

\* C11: GetRemainingRequests returns max(0, limit - n), where n is the
\* number of requests admitted for the key strictly inside the current
\* window: limit for a key with no admission (a key never seen included),
\* and 0 right after limit admissions inside the window.
C11_RemainingRequests ==
  [][\A p \in Callers :
       GetRemainingCount(p) =>
         LET n == Cardinality(AdmittedIn(cKey[p], now))
         IN /\ cRemaining'[p] = IF limit - n < 0 THEN 0 ELSE limit - n
            /\ calls[cKey[p]] = <<>> => cRemaining'[p] = limit
            /\ n = limit => cRemaining'[p] = 0]_vars

\* With limit = 2, GetRemainingRequests has computed 0 for a key that was
\* admitted twice inside the window, after an older admission of that key
\* had left the window.
C11_Witness ==
  \E p \in Callers :
    /\ limit = 2
    /\ cpc[p] = "runlock"
    /\ cRemaining[p] = 0
    /\ Cardinality(AdmittedIn(cKey[p], now)) = 2
    /\ Len(requests[cKey[p]]) = 2
    /\ Cardinality({i \in DOMAIN calls[cKey[p]] : calls[cKey[p]][i].ok}) = 3

\* C20: shutdown.  Once the hub's context is cancelled and Run has
\* returned, no loop is blocked on the coordinator (a read loop that waits
\* to hand over its unregister request is received), and when no loop can
\* move any more every client's queue has been closed and every connection
\* closed.
C20_ShutdownReleases ==
  (runPc = "stopped" /\ Running) =>
    /\ \A c \in Conns : rpump[c] = "unregister" => ENABLED RunUnregister(c)
    /\ (~ENABLED HubNext) =>
         \A c \in Conns :
           hws[c] = "started" =>
             /\ c \in sendClosed
             /\ wpump[c] = "exited"
             /\ rpump[c] = "exited"


\* C12: an inactive tenant admits no new events and no new subscriptions:
\* no row of the events table and no client of the hub belongs to a tenant
\* whose Active flag is false, whichever credential the request came with.
C12_InactiveAdmitsNothing ==
  /\ \A i \in DOMAIN events : events[i] \in Tenants /\ active[events[i]]
  /\ \A c \in Conns : hws[c] # "none" => active[tenantID[c]]


\* C13: a caller authenticated as one tenant only reaches that tenant's
\* data: a handler stores and fans out an event only under the tenant of
\* the request's context, and a successful answer (a tenant with its API
\* key, a signed token, a list of events) is about that tenant.
C13_OwnTenantOnly ==
  [][\A p \in Servers :
       apc[p] = "handler" =>
         /\ apc'[p] = "go" => reqTenant'[p] = ctxTenant[p]
         /\ (apc'[p] = "idle" /\ resp'.status = StatusOK) =>
              resp'.subject = ctxTenant[p]]_vars


C16_FailureIndistinguishable ==
  /\ [](\A c \in Creds(now) :
          ~Authenticated(c, now).ok =>
            Unauthorized(Cause(c, now)) = Unauthorized("missing credentials"))
  /\ [][(served' = served + 1 /\ apc' = apc) =>
           resp' = Response(StatusUnauthorized,
             "unauthorized: Invalid or missing authentication credentials")]_vars

\* Two requests have come in and both were turned down by Authenticate (the
\* rate limiter has seen neither), at a time when tokens have expired and
\* the table holds an inactive tenant.
C16_Witness ==
  /\ served = 2
  /\ \A p \in Servers : apc[p] = "idle"
  /\ \A k \in Keys : calls[k] = <<>>
  /\ resp.status = StatusUnauthorized
  /\ now >= JwtExpiry
  /\ \E t \in Tenants : ~active[t]
  /\ {Cause(c, now) : c \in {d \in Creds(now) : ~Authenticated(d, now).ok}}
       = {"unknown key", "inactive tenant", "invalid token",
          "missing credentials"}


\* Publishes handed to the hub so far.
HandedOver == {e \in Events : bpc[e] # "new"}

\* C17: an event is handed to the hub only after its CreateEvent has
\* succeeded and exactly once per accepted request: a request runs the go
\* statement at most once and only with its row written, it answers only
\* after it, and the hub has been handed as many publishes as there are
\* stored rows, less those whose request has yet to reach the go statement;
\* so a failed CreateEvent, which stores no row, has no fan-out.
C17_FanOutAfterStore ==
  /\ \A p \in Servers :
       /\ handed[p] <= 1
       /\ handed[p] = 1 => created[p]
       /\ apc[p] = "go" => created[p] /\ handed[p] = 0
       /\ apc[p] = "respond" => created[p] /\ handed[p] = 1
  /\ Cardinality(HandedOver) =
       Len(events) - Cardinality({p \in Servers : apc[p] = "go"})

\* One request has stored its event and handed it over, and a later one
\* has been answered 500 because its CreateEvent failed.
C17_Witness ==
  /\ resp = Response(StatusInternalServerError, "create event")
  /\ Len(events) = 1
  /\ Cardinality(HandedOver) = 1
  /\ \A p \in Servers : apc[p] = "idle"


\* C18: a distribution failure stays inside the hub: a request whose event
\* is stored is still being served, so that it can run its go statement and
\* answer 201, whatever the subscribers' queues are like and however the
\* publishes interleave.
C18_FailureContained ==
  \A p \in Servers :
    /\ apc[p] = "go" => \E e \in Events : ENABLED Publish(e, reqTenant[p])
    /\ apc[p] = "respond" => ENABLED IngestRespond(p)

\* C19: a request the rate limiter rejects ends there: it is answered 429
\* with the rate-limit error and a Retry-After hint, its handler does not
\* run (its goroutine is idle again, its context gone), and nothing is
\* stored or handed to the hub for it.
C19_RejectionTerminal ==
  [][\A p \in Servers :
       LET k == ctxTenant[p]
       IN (/\ apc[p] = "limit" /\ apc'[p] # "limit"
           /\ Len(calls'[k]) = Len(calls[k]) + 1
           /\ ~calls'[k][Len(calls'[k])].ok) =>
            /\ Len(ValidRequests(requests[k], now - Window)) >= limit
            /\ apc'[p] = "idle"
            /\ resp'.status = StatusTooManyRequests
            /\ resp'.body = <<"rate_limit_exceeded">>
            /\ resp'.retryAfter = RetryAfter /\ resp'.retryAfter > 0
            /\ ctxTenant'[p] = NoTenant /\ reqTenant'[p] = NoTenant
            /\ ~created'[p] /\ handed'[p] = 0
            /\ UNCHANGED <<events, hubVars>>]_vars

\* Two requests of tenant A have stored and handed over their events and
\* the third has been rejected with 429.
C19_Witness ==
  /\ resp.status = StatusTooManyRequests
  /\ \A p \in Servers : apc[p] = "idle"
  /\ Len(calls["A"]) = limit + 1
  /\ ~calls["A"][limit + 1].ok
  /\ Len(events) = limit
  /\ Cardinality(HandedOver) = limit


\* A loop of client c has exited (writePump has returned, or readPump has
\* left its for loop).
LoopExited(c) ==
  hws[c] = "started" /\ (wpump[c] = "exited" \/ rpump[c] # "run")

\* C21: for every registered connection the exit of either loop leads to
\* its unregistration: readPump's unregister request is received by Run,
\* the queue is closed and the client is out of the map.
C21_ExitUnregisters ==
  \A c \in Conns :
    LoopExited(c) ~>
      (rpump[c] = "exited" /\ c \in sendClosed /\ c \notin clients)


\* C22: while Run is running, a connection whose ReadMessage has returned
\* an error (the peer closed, a protocol error, the pong deadline passed)
\* is eventually out of h.clients, and a client that is out stays out.  Run
\* never polls: it acts on the request readPump sends.
C22_DeadConnectionReaped ==
  /\ \A c \in Conns :
       rpump[c] = "unregister" ~>
         (c \notin clients \/ runPc = "stopped" \/ ~Running)
  /\ [][\A c \in Conns :
         (hws[c] = "started" /\ c \notin clients) => c \notin clients']_vars

\* The read loop of a client has failed while its write loop was still
\* running, and Run, still running, has removed the client.
C22_Witness ==
  \E c \in Conns :
    /\ c \in unregDone /\ c \notin clients /\ c \in sendClosed
    /\ rpump[c] = "exited" /\ wpump[c] = "run"
    /\ runPc = "select" /\ Running


\* C23: h.clients is never inserted into or deleted from while another
\* goroutine is reading it: at every step that changes the set of keys, no
\* goroutine other than the one that changes it holds the lock.
C23_ExclusiveMutation ==
  [][clients' # clients => Cardinality(Readers) <= 1]_vars


\* C26: under every interleaving of publishes and unregistrations a
\* client's send channel is closed at most once and nothing is sent on it
\* after the close: no goroutine reaches a second close(client.send) or a
\* send on the closed channel.
C26_NoDoubleCloseNoSendOnClosed ==
  crashed \notin {"close of closed channel", "send on closed channel"}


\* C24: a rejected Allow records nothing: the record it stores holds only
\* timestamps that were there before (those still inside the window), and
\* every timestamp on record is that of an admitted call.  So rejections do
\* not extend the lockout: whatever was rejected before, the key is
\* admitted as soon as the oldest timestamp on record is at or before
\* now - Window.
C24_RejectionRecordsNothing ==
  /\ [](\A k \in Keys : \A i \in DOMAIN requests[k] :
          \E j \in DOMAIN calls[k] :
            calls[k][j].ok /\ calls[k][j].t = requests[k][i])
  /\ [][\A p \in Callers :
         AllowCheck(p) =>
           LET k == cKey[p]
               r == requests[k]
           IN /\ ~cResult'[p] =>
                   /\ requests'[k] =
                        SelectSeq(r, LAMBDA t : t > cNow[p] - Window)
                   /\ Len(requests'[k]) <= Len(r)
              /\ (r # <<>> /\ r[1] <= cNow[p] - Window) => cResult'[p]]_vars

\* With limit = 1 a key was admitted, then rejected twice, the second time
\* one tick before the window ran out, and admitted at exactly Window after
\* the admission.
C24_Witness ==
  \E k \in Keys :
    /\ limit = 1
    /\ Len(calls[k]) = 4
    /\ calls[k][1].ok /\ ~calls[k][2].ok /\ ~calls[k][3].ok /\ calls[k][4].ok
    /\ calls[k][3].t = calls[k][1].t + Window - 1
    /\ calls[k][4].t = calls[k][1].t + Window


\* C25: a connection the hub dropped for queue overflow is reaped: its
\* write loop ends on the closed queue (closing the socket), its read loop
\* ends and its unregister request is received, and that request changes
\* neither the live set nor the queue.
C25_DroppedReaped ==
  /\ \A c \in Conns :
       (c \in dropped) ~>
         (wpump[c] = "exited" /\ rpump[c] = "exited" /\ c \notin clients)
  /\ [][\A c \in Conns :
         (RunUnregister(c) /\ c \in dropped /\ c \in sendClosed) =>
           (clients' = clients /\ sendClosed' = sendClosed)]_vars


\* C27: ingestion order is delivery order.  The server handles one request
\* at a time here, so the request of event d has answered before the
\* request of a later event e starts, and every live connection has been
\* registered since before the first request: what a connection was sent
\* last and what waits in its queue are in increasing order of event id.
C27_IngestionOrder ==
  \A c \in clients :
    /\ \A i, j \in DOMAIN send[c] : i < j => send[c][i] < send[c][j]
    /\ \A i \in DOMAIN send[c] : lastFrame[c] < send[c][i]


\* C28: the Retry-After hint is honest.  With limit >= 1, when a call for
\* key k was rejected at time t and no call for k was admitted since, a
\* call for k made at or after t plus the advertised retry-after is
\* admitted.
C28_RetryAfterAdmits ==
  \A k \in Keys : \A i, j \in DOMAIN calls[k] :
    (/\ limit >= 1
     /\ i < j
     /\ ~calls[k][i].ok
     /\ calls[k][j].t - calls[k][i].t >= RetryAfterTicks
     /\ \A l \in DOMAIN calls[k] : (i < l /\ l < j) => ~calls[k][l].ok)
      => calls[k][j].ok

\* With limit = 1 a key was admitted, rejected one tick later, and
\* admitted by the next call, made exactly the retry-after later.
C28_Witness ==
  \E k \in Keys :
    /\ limit = 1
    /\ Len(calls[k]) >= 3
    /\ calls[k][1].ok /\ ~calls[k][2].ok /\ calls[k][3].ok
    /\ calls[k][2].t = calls[k][1].t + 1
    /\ calls[k][3].t = calls[k][2].t + RetryAfterTicks


\* C29: tenant names stay unique under concurrent CreateTenant requests: no
\* two rows of the tenants table carry the same name (of the requests that
\* carry one name at most one inserts a row).
C29_TenantNamesUnique ==
  \A i, j \in DOMAIN tenantRows : tenantRows[i] = tenantRows[j] => i = j

\* C30: the live feed has at most one WebSocket that is connecting or open,
\* and that one was opened with the API key of the tenant selected now.
C30_OneSocketCurrentKey ==
  /\ Cardinality(Live(sockets)) <= 1
  /\ \A s \in Live(sockets) : sockets[s].key = tenantApiKey

=============================================================================
